---- MODULE Spec2Model ----
(***************************************************************************)
(* State-machine model of the crawler of src/src/crawler.rs: the Crawler   *)
(* struct (graph, queue), its operations new, explore_url, explore_queue,  *)
(* explore_queue_multi, add_to_queue, explored_nodes, and the link         *)
(* extractor extract_hrefs_from with the URL operations it calls.          *)
(*                                                                         *)
(* A string is modelled by its syntactic parts (StrOf), a parsed url::Url  *)
(* by the components the url crate keeps (UrlParse); parsing normalises    *)
(* (an empty path of an https URL becomes "/", dot segments are removed),  *)
(* so a raw string and the serialisation of its parse differ.              *)
(***************************************************************************)
EXTENDS Naturals, Sequences, FiniteSets, TLC

\* ------------------------------------------------------------- bounds

\* Cap on the length of the queue (VecDeque has no bound of its own).
MaxQueue == 3

\* Cap on the number of API calls made on one Crawler.
MaxCalls == 2

\* Largest n passed to explore_queue_multi.
MaxBatch == 2

\* Largest number of anchors of a document given to the link extractor.
MaxAnchors == 3

\* ------------------------------------------------------------ strings

\* A string as the URL parser reads it: scheme ("" when none), authority
\* ("" when none), whether the path starts with "/", the path segments
\* (a trailing "" segment is a trailing slash), the fragment ("" when
\* none), and whether the text is malformed beyond any parse.
StrOf(scheme, auth, rooted, segs, frag, bad) ==
    [scheme |-> scheme, auth |-> auth, rooted |-> rooted, segs |-> segs,
     frag |-> frag, bad |-> bad]

\* "https://a"          (no path: not the serialised form)
sA == StrOf("https", "a", FALSE, <<>>, "", FALSE)
\* "https://a/"
sASlash == StrOf("https", "a", TRUE, <<"">>, "", FALSE)
\* "https://a/x"
sAx == StrOf("https", "a", TRUE, <<"x">>, "", FALSE)
\* "https://a/y"
sAy == StrOf("https", "a", TRUE, <<"y">>, "", FALSE)
\* "https://a/d/"
sAd == StrOf("https", "a", TRUE, <<"d", "">>, "", FALSE)
\* "https://a/#f"
sAFrag == StrOf("https", "a", TRUE, <<"">>, "f", FALSE)
\* "https://b"
sB == StrOf("https", "b", FALSE, <<>>, "", FALSE)
\* "https://b/"
sBSlash == StrOf("https", "b", TRUE, <<"">>, "", FALSE)
\* "/x"
sRel == StrOf("", "", TRUE, <<"x">>, "", FALSE)
\* "../y"
sUp == StrOf("", "", FALSE, <<"..", "y">>, "", FALSE)
\* "#f"
sFrag == StrOf("", "", FALSE, <<>>, "f", FALSE)
\* "mailto:m"
sMail == StrOf("mailto", "", FALSE, <<"m">>, "", FALSE)
\* "https://["          (malformed: neither parses nor joins)
sBad == StrOf("https", "[", FALSE, <<>>, "", TRUE)

\* ----------------------------------------------------------- url::Url

NoUrl == [ok |-> FALSE, scheme |-> "", host |-> "", path |-> <<>>,
          fragment |-> "", cannot_be_a_base |-> FALSE]

MkUrl(scheme, host, path, fragment, cbb) ==
    [ok |-> TRUE, scheme |-> scheme, host |-> host, path |-> path,
     fragment |-> fragment, cannot_be_a_base |-> cbb]

Front(s) == SubSeq(s, 1, Len(s) - 1)

\* Removal of "." and ".." segments as the URL parser does it while it
\* reads a path: ".." drops the last segment kept so far, and a dot
\* segment in last position leaves a trailing slash.
RECURSIVE RemoveDots(_, _)
RemoveDots(segs, out) ==
    IF segs = <<>> THEN out
    ELSE LET seg == Head(segs)
             last == Len(segs) = 1
             kept == IF seg = ".." THEN Front(out)
                     ELSE IF seg = "." THEN out
                     ELSE Append(out, seg)
             next == IF seg \in {"..", "."} /\ last THEN Append(kept, "") ELSE kept
         IN RemoveDots(Tail(segs), next)

\* The path of a special-scheme URL: never empty ("/" at least).
NormalPath(segs) ==
    LET p == RemoveDots(segs, <<>>) IN IF p = <<>> THEN <<"">> ELSE p

\* Url::parse: an absolute URL or an error (ok = FALSE).
UrlParse(s) ==
    IF s.bad \/ s.scheme = "" THEN NoUrl
    ELSE IF s.scheme = "https"
         THEN IF s.auth = "" THEN NoUrl
              ELSE MkUrl("https", s.auth, NormalPath(s.segs), s.frag, FALSE)
         ELSE MkUrl(s.scheme, "", s.segs, s.frag, TRUE)

\* Url::join: resolution of a reference against a base URL.
UrlJoin(base, s) ==
    IF s.bad THEN NoUrl
    ELSE IF s.scheme # "" THEN UrlParse(s)
    ELSE IF base.cannot_be_a_base
         THEN IF s.auth = "" /\ ~s.rooted /\ s.segs = <<>>
              THEN [base EXCEPT !.fragment = s.frag]
              ELSE NoUrl
    ELSE IF s.auth # ""
         THEN MkUrl(base.scheme, s.auth, NormalPath(s.segs), s.frag, FALSE)
    ELSE IF s.rooted
         THEN MkUrl(base.scheme, base.host, NormalPath(s.segs), s.frag, FALSE)
    ELSE IF s.segs = <<>>
         THEN MkUrl(base.scheme, base.host, base.path, s.frag, FALSE)
    ELSE MkUrl(base.scheme, base.host,
               NormalPath(Front(base.path) \o s.segs), s.frag, FALSE)

\* Url::set_fragment(None)
SetFragmentNone(u) == [u EXCEPT !.fragment = ""]

\* A slip in the host test: every URL passes.
HasHostAlways(u) == TRUE

\* Url::has_host
HasHost(u) == u.host # ""

\* Url::to_string / Url::as_str: the serialisation.
UrlToString(u) ==
    StrOf(u.scheme, u.host, ~u.cannot_be_a_base, u.path, u.fragment, FALSE)

\* ------------------------------------------------------ link extractor

\* An anchor element: with or without an href attribute.
Anchor(href) == [has_href |-> TRUE, href |-> href]
NoHref == [has_href |-> FALSE, href |-> StrOf("", "", FALSE, <<>>, "", FALSE)]

\* A slip in the closure: an href that does not parse alone is dropped,
\* not joined to the base URL.
HrefLinksNoJoin(base_url, a) ==
    IF ~a.has_href THEN <<>>
    ELSE LET href_url == UrlParse(a.href)
         IN IF ~href_url.ok THEN <<>>
            ELSE LET stripped == SetFragmentNone(href_url)
                 IN IF HasHost(stripped) THEN <<UrlToString(stripped)>> ELSE <<>>

\* The closure of the filter_map: the links (none or one) of one anchor.
HrefLinks(base_url, a) ==
    IF ~a.has_href THEN <<>>
    ELSE LET parsed == UrlParse(a.href)
             href_url == IF parsed.ok THEN parsed ELSE UrlJoin(base_url, a.href)
         IN IF ~href_url.ok THEN <<>>
            ELSE LET stripped == SetFragmentNone(href_url)
                 IN IF HasHost(stripped) THEN <<UrlToString(stripped)>> ELSE <<>>

\* A slip in the collection: the links gathered in reverse document order.
RECURSIVE FilterMapAnchorsRev(_, _)
FilterMapAnchorsRev(base_url, anchors) ==
    IF anchors = <<>> THEN <<>>
    ELSE FilterMapAnchorsRev(base_url, Tail(anchors)) \o HrefLinks(base_url, Head(anchors))

RECURSIVE FilterMapAnchors(_, _)
FilterMapAnchors(base_url, anchors) ==
    IF anchors = <<>> THEN <<>>
    ELSE HrefLinks(base_url, Head(anchors)) \o FilterMapAnchors(base_url, Tail(anchors))

\* extract_hrefs_from panics (expect) when its url argument does not parse.
ExtractPanics(url) == ~UrlParse(url).ok

\* extract_hrefs_from(url, body): body is the document's anchors in
\* document order (what Html::parse_document and select("a") yield).
ExtractHrefsFrom(url, body) == FilterMapAnchors(UrlParse(url), body)

\* ------------------------------------------------------- HTTP and pages

\* Outcome of client.get(url).send(): an error, or a response that
\* carries the final URL it was answered from.
SendErr == [ok |-> FALSE, url |-> NoUrl]
SendOk(u) == [ok |-> TRUE, url |-> u]
Pending == [ok |-> FALSE, url |-> MkUrl("pending", "", <<>>, "", TRUE)]

\* Outcome of Response::text(): an error, or the body.
TextErr == [ok |-> FALSE, body |-> <<>>]
TextOk(b) == [ok |-> TRUE, body |-> b]

\* The request builder rejects a string that is no URL with a host.
Requestable(req) == UrlParse(req).ok /\ HasHost(UrlParse(req))

\* Where a redirect of the modelled web leads.
RedirectTarget == UrlParse(sBSlash)

\* What the network may answer to a request for req.
SendResults(req) ==
    IF Requestable(req)
    THEN {SendErr, SendOk(UrlParse(req)), SendOk(RedirectTarget)}
    ELSE {SendErr}

\* The documents of the modelled web, as anchors in document order.
BodyEmpty == <<>>
BodyLinks == <<Anchor(sB), Anchor(sRel)>>
BodyDup == <<Anchor(sA), NoHref, Anchor(sASlash)>>
BodyFrag == <<Anchor(sFrag), Anchor(sMail)>>
Bodies == {BodyEmpty, BodyLinks, BodyDup}

TextResults == {TextErr} \cup {TextOk(b) : b \in Bodies}

\* The strings a caller passes to new, add_to_queue and explore_url.
CallerUrls == {sA, sASlash, sRel}

\* --------------------------------------------------------------- state

VARIABLES
    queue,      \* Crawler.queue: VecDeque<String>
    graph,      \* Crawler.graph: HashMap<String, Vec<String>>
    pc,         \* "idle", "multi" (inside explore_queue_multi), "panicked"
    urls,       \* explore_queue_multi: the drained URLs
    responses,  \* explore_queue_multi: the send future of each URL (Pending or resolved)
    texts,      \* explore_queue_multi: the text() outcome of each response handled so far
    calls,      \* number of calls made
    hist        \* the last call: its arguments, entry state, fetch and return value,
                \* and the order in which its send futures resolved (done)

vars == <<queue, graph, pc, urls, responses, texts, calls, hist>>

EmptyGraph == [k \in {} |-> <<>>]

NoText == [ok |-> FALSE, body |-> <<"skipped">>]

Hist(op, url, flag, n, ret, q0, g0, fetch, body) ==
    [op |-> op, url |-> url, flag |-> flag, n |-> n, ret |-> ret,
     queue0 |-> q0, graph0 |-> g0, fetch |-> fetch, body |-> body,
     done |-> <<>>]

\* A slip in the insert: the map rebuilt from the new entry alone.
GraphInsertOnly(g, k, v) == [x \in {k} |-> v]

\* A slip in the insert: the new links appended to the links already kept.
GraphInsertMerge(g, k, v) ==
    [x \in DOMAIN g \cup {k} |->
        IF x = k THEN (IF k \in DOMAIN g THEN g[k] \o v ELSE v) ELSE g[x]]

\* HashMap::insert: the value of an existing key is replaced.
GraphInsert(g, k, v) ==
    [x \in DOMAIN g \cup {k} |-> IF x = k THEN v ELSE g[x]]

\* A slip in the append: the links put in front of the queue.
QueueAppendMut(q, links) == links \o q

\* VecDeque::append of the links at the back.
QueueAppend(q, links) == q \o links

\* Crawler::new(url): push_front on an empty queue.
Init ==
    /\ \E url \in CallerUrls : queue = <<url>>
    /\ graph = EmptyGraph
    /\ pc = "idle"
    /\ urls = <<>>
    /\ responses = <<>>
    /\ texts = <<>>
    /\ calls = 0
    /\ hist = Hist("new", sA, FALSE, 0, "Ok", <<>>, EmptyGraph, "none", <<>>)

\* ------------------------------------------------------------- explore

\* make_request: send().await.unwrap() panics on a send error; a text()
\* error becomes RequestError.
MakeRequest(send, text) ==
    IF ~send.ok THEN [kind |-> "Panic", body |-> <<>>]
    ELSE IF ~text.ok THEN [kind |-> "Err", body |-> <<>>]
    ELSE [kind |-> "Ok", body |-> text.body]

\* A slip in the error of a URL that does not parse: RequestError in
\* place of UrlParseError.
ExploreUrlOnMut(q, g, url, send, text) ==
    LET parsed_url == UrlParse(url) IN
    IF ~parsed_url.ok
    THEN [ret |-> "RequestError", queue |-> q, graph |-> g, fetch |-> "none", body |-> <<>>]
    ELSE LET response == MakeRequest(send, text)
             links == ExtractHrefsFrom(UrlToString(parsed_url), response.body)
         IN IF response.kind = "Panic" \/ ExtractPanics(UrlToString(parsed_url))
            THEN [ret |-> "Panic", queue |-> q, graph |-> g, fetch |-> "send_err", body |-> <<>>]
            ELSE IF response.kind = "Err"
            THEN [ret |-> "RequestError", queue |-> q, graph |-> g, fetch |-> "text_err", body |-> <<>>]
            ELSE [ret |-> "Ok", queue |-> QueueAppend(q, links),
                  graph |-> GraphInsert(g, url, links), fetch |-> "ok",
                  body |-> response.body]

\* explore_url(url) run on queue q and graph g with the given network
\* outcome: the return value, the queue and graph it leaves, the fetch.
ExploreUrlOn(q, g, url, send, text) ==
    LET parsed_url == UrlParse(url) IN
    IF ~parsed_url.ok
    THEN [ret |-> "UrlParseError", queue |-> q, graph |-> g, fetch |-> "none", body |-> <<>>]
    ELSE LET response == MakeRequest(send, text)
             links == ExtractHrefsFrom(UrlToString(parsed_url), response.body)
         IN IF response.kind = "Panic" \/ ExtractPanics(UrlToString(parsed_url))
            THEN [ret |-> "Panic", queue |-> q, graph |-> g, fetch |-> "send_err", body |-> <<>>]
            ELSE IF response.kind = "Err"
            THEN [ret |-> "RequestError", queue |-> q, graph |-> g, fetch |-> "text_err", body |-> <<>>]
            ELSE [ret |-> "Ok", queue |-> QueueAppend(q, links),
                  graph |-> GraphInsert(g, url, links), fetch |-> "ok",
                  body |-> response.body]

\* A slip in the condition: the flag read without its negation.
ShouldExploreMut(g, url, ignore_already_crawled) ==
    ~(url \in DOMAIN g) \/ ignore_already_crawled

\* A slip in the condition: the popped URL is visited whatever the graph holds.
ShouldExploreAlways(g, url, ignore_already_crawled) == TRUE

\* The condition under which explore_queue visits the URL it popped.
ShouldExplore(g, url, ignore_already_crawled) ==
    ~(url \in DOMAIN g) \/ ~ignore_already_crawled

\* A slip in the error of the empty queue: RequestError in place of EmptyQueue.
ExploreQueueOnMut(q, g, ignore_already_crawled, send, text) ==
    IF q = <<>>
    THEN [ret |-> "RequestError", queue |-> q, graph |-> g, fetch |-> "none", body |-> <<>>]
    ELSE LET url == Head(q) IN
         IF ShouldExplore(g, url, ignore_already_crawled)
         THEN ExploreUrlOn(Tail(q), g, url, send, text)
         ELSE [ret |-> "Ok", queue |-> Tail(q), graph |-> g, fetch |-> "none", body |-> <<>>]

\* explore_queue(ignore_already_crawled) on queue q and graph g.
ExploreQueueOn(q, g, ignore_already_crawled, send, text) ==
    IF q = <<>>
    THEN [ret |-> "EmptyQueue", queue |-> q, graph |-> g, fetch |-> "none", body |-> <<>>]
    ELSE LET url == Head(q) IN
         IF ShouldExplore(g, url, ignore_already_crawled)
         THEN ExploreUrlOn(Tail(q), g, url, send, text)
         ELSE [ret |-> "Ok", queue |-> Tail(q), graph |-> g, fetch |-> "none", body |-> <<>>]

\* The string explore_url requests: parsed_url.as_str().
RequestOf(url) == UrlToString(UrlParse(url))

AfterCall(ret) == IF ret = "Panic" THEN "panicked" ELSE "idle"

CanCall == pc = "idle" /\ calls < MaxCalls

\* One call explore_url(url) with the given outcome of its fetch.
ExploreUrlCall(url, send, text) ==
    /\ LET r == ExploreUrlOn(queue, graph, url, send, text) IN
         /\ queue' = r.queue
         /\ graph' = r.graph
         /\ pc' = AfterCall(r.ret)
         /\ hist' = Hist("explore_url", url, FALSE, 0, r.ret, queue, graph, r.fetch, r.body)
    /\ urls' = <<>> /\ responses' = <<>> /\ texts' = <<>>
    /\ calls' = calls + 1

ExploreUrl ==
    /\ CanCall
    /\ \E url \in CallerUrls : \E send \in SendResults(RequestOf(url)) : \E text \in TextResults :
         ExploreUrlCall(url, send, text)
    /\ Len(queue') <= MaxQueue

\* One call explore_queue(flag), with every outcome of its fetch.
ExploreQueueCall(flag) ==
    /\ \E send \in (IF queue = <<>> THEN {SendErr} ELSE SendResults(RequestOf(Head(queue)))) :
       \E text \in TextResults :
         LET r == ExploreQueueOn(queue, graph, flag, send, text) IN
         /\ queue' = r.queue
         /\ graph' = r.graph
         /\ pc' = AfterCall(r.ret)
         /\ hist' = Hist("explore_queue", IF queue = <<>> THEN sA ELSE Head(queue), flag, 0, r.ret, queue, graph, r.fetch, r.body)
    /\ urls' = <<>> /\ responses' = <<>> /\ texts' = <<>>
    /\ calls' = calls + 1

ExploreQueue ==
    /\ CanCall
    /\ \E flag \in BOOLEAN : ExploreQueueCall(flag)
    /\ Len(queue') <= MaxQueue

\* add_to_queue(url): push_back.
AddToQueue ==
    /\ CanCall
    /\ Len(queue) < MaxQueue
    /\ \E url \in CallerUrls :
         /\ queue' = Append(queue, url)
         /\ hist' = Hist("add_to_queue", url, FALSE, 0, "Ok", queue, graph, "none", <<>>)
    /\ UNCHANGED graph
    /\ pc' = "idle"
    /\ urls' = <<>> /\ responses' = <<>> /\ texts' = <<>>
    /\ calls' = calls + 1

\* explored_nodes()
ExploredNodes == Cardinality(DOMAIN graph)

\* ------------------------------------------------- explore_queue_multi

\* queue.drain(0..n) panics when n exceeds the length of the queue.
DrainPanics(q, n) == n > Len(q)

\* A first-completed wait in place of join_all: some send future has resolved.
JoinAnyDone(rs) == \E i \in 1..Len(rs) : rs[i] # Pending

\* join_all(...).await has returned: every send future has resolved.
JoinAllDone(rs) == \A i \in 1..Len(rs) : rs[i] # Pending

\* The call: the drain, and the creation of one send future per URL.
MultiStart ==
    /\ CanCall
    /\ \E n \in 0..MaxBatch :
         IF DrainPanics(queue, n)
         THEN /\ pc' = "panicked"
              /\ hist' = Hist("explore_queue_multi", sA, FALSE, n, "Panic", queue, graph, "none", <<>>)
              /\ urls' = <<>> /\ responses' = <<>>
              /\ UNCHANGED queue
         ELSE /\ pc' = "multi"
              /\ hist' = Hist("explore_queue_multi", sA, FALSE, n, "Pending", queue, graph, "none", <<>>)
              /\ urls' = SubSeq(queue, 1, n)
              /\ responses' = [i \in 1..n |-> Pending]
              /\ queue' = SubSeq(queue, n + 1, Len(queue))
    /\ texts' = <<>>
    /\ UNCHANGED graph
    /\ calls' = calls + 1

\* One send future resolves; the futures resolve in any order.
SendResolve ==
    /\ pc = "multi"
    /\ \E i \in 1..Len(responses) :
         /\ responses[i] = Pending
         /\ \E r \in SendResults(urls[i]) : responses' = [responses EXCEPT ![i] = r]
         /\ hist' = [hist EXCEPT !.done = Append(@, i)]
    /\ UNCHANGED <<queue, graph, pc, urls, texts, calls>>

\* A loop over the responses in the order of their completion (as over a
\* FuturesUnordered) in place of the order of join_all's output.
NextSlotMut(handled, done) == done[Len(handled) + 1]

\* The response the loop handles next: join_all returns the outputs in the
\* order of the futures it was given, whatever the order of completion.
NextSlot(handled, done) == Len(handled) + 1

\* One iteration of the loop over the responses, in the order of urls.
\* A send error is skipped; text().await.unwrap() panics on a text error.
MultiApply ==
    /\ pc = "multi"
    /\ JoinAllDone(responses)
    /\ Len(texts) < Len(responses)
    /\ LET response == responses[NextSlot(texts, hist.done)] IN
       IF ~response.ok
       THEN /\ texts' = Append(texts, NoText)
            /\ UNCHANGED <<queue, graph, pc, hist>>
       ELSE \E text \in TextResults :
              /\ texts' = Append(texts, text)
              /\ IF ~text.ok \/ ExtractPanics(UrlToString(response.url))
                 THEN /\ pc' = "panicked"
                      /\ hist' = [hist EXCEPT !.ret = "Panic"]
                      /\ UNCHANGED <<queue, graph>>
                 ELSE LET url == UrlToString(response.url)
                          links == ExtractHrefsFrom(url, text.body)
                      IN /\ Len(queue) + Len(links) <= MaxQueue
                         /\ queue' = QueueAppend(queue, links)
                         /\ graph' = GraphInsert(graph, url, links)
                         /\ UNCHANGED <<pc, hist>>
    /\ UNCHANGED <<urls, responses, calls>>

\* The loop is over: Ok(()).
MultiReturn ==
    /\ pc = "multi"
    /\ JoinAllDone(responses)
    /\ Len(texts) = Len(responses)
    /\ pc' = "idle"
    /\ hist' = [hist EXCEPT !.ret = "Ok"]
    /\ UNCHANGED <<queue, graph, urls, responses, texts, calls>>

\* ------------------------------------------------------- specification

Next ==
    \/ ExploreUrl
    \/ ExploreQueue
    \/ AddToQueue
    \/ MultiStart
    \/ SendResolve
    \/ MultiApply
    \/ MultiReturn

Spec == Init /\ [][Next]_vars

\* ------------------------------------------- the extractor on documents

\* The href attributes of the documents given to the extractor.
Hrefs == {sA, sASlash, sB, sRel, sUp, sFrag, sMail, sBad, sAFrag}

Anchors == {NoHref} \cup {Anchor(h) : h \in Hrefs}

\* The documents: up to MaxAnchors anchors in document order.
Docs == UNION {[1..n -> Anchors] : n \in 0..MaxAnchors}

\* The URLs of the pages the documents are fetched from.
PageUrls == {sAd, sA, sAx}

\* One successful visit explore_url(url) of a page whose body is any of
\* the documents: extract_hrefs_from applied to (url, body).
VisitPage ==
    /\ pc = "idle"
    /\ calls = 0
    /\ \E url \in PageUrls : \E body \in Docs :
         ExploreUrlCall(url, SendOk(UrlParse(url)), TextOk(body))

ExtractSpec == Init /\ [][VisitPage]_vars

\* ------------------------------------------------------------ the driver

\* A driver that, after new, only calls explore_queue(true), goes on
\* after every error it is returned and stops when it is returned
\* EmptyQueue (the loop of main, without its expect); a panic ends it.
DriverStep ==
    /\ pc = "idle"
    /\ hist.ret # "EmptyQueue"
    /\ ExploreQueueCall(TRUE)

DrainSpec == Init /\ [][DriverStep]_vars

\* The driver makes its next call and every fetch resolves.
FairDrainSpec == DrainSpec /\ WF_vars(DriverStep)

\* -------------------------------------------------------------- claims

Min(a, b) == IF a <= b THEN a ELSE b

\* The last call was op and is over (returned or panicked).
Ended(op) == hist.op = op /\ pc # "multi"

\* The queue explore_url was entered with, in the last call.
VisitQueue0 ==
    IF hist.op = "explore_queue" THEN Tail(hist.queue0) ELSE hist.queue0

\* A string is canonical: it is the serialisation of an absolute URL with
\* a host and without a fragment.
Canonical(s) ==
    LET u == UrlParse(s) IN
    u.ok /\ HasHost(u) /\ u.fragment = "" /\ UrlToString(u) = s

\* C1: whenever the fetch of explore_url fails (send error or text error),
\* the call returns RequestError and leaves queue and graph as they were
\* when explore_url was entered.
C1_FetchFailureIsRequestError ==
    (hist.op \in {"explore_url", "explore_queue"} /\ hist.fetch \in {"send_err", "text_err"})
    => (hist.ret = "RequestError" /\ queue = VisitQueue0 /\ graph = hist.graph0)

\* C2: explore_queue_multi(n) on a queue of k URLs dequeues the first
\* min(n, k) URLs in order and does not abort when n exceeds k.
C2_DequeuesMinOfNAndLen ==
    hist.op = "explore_queue_multi"
    => LET k == Len(hist.queue0)
           m == Min(hist.n, k)
       IN /\ ~(hist.ret = "Panic" /\ hist.n > k)
          /\ urls = SubSeq(hist.queue0, 1, m)

\* C3: a call of explore_queue_multi that returns (a panic of the call is
\* the matter of C2 and C4) fails exactly when the queue was empty at the
\* call, then with EmptyQueue, and returns Ok in every other case.
C3_FailsIffQueueEmpty ==
    (Ended("explore_queue_multi") /\ hist.ret # "Panic")
    => /\ (hist.queue0 = <<>> => hist.ret = "EmptyQueue")
       /\ (hist.queue0 # <<>> => hist.ret = "Ok")

\* C4: in explore_queue_multi every fetch outcome is handled on its own:
\* the call is not aborted by a failed fetch (send error or text error),
\* every response is handled, and every URL whose fetch succeeded has its
\* graph entry written.
C4_FailuresAreIndependent ==
    (Ended("explore_queue_multi") /\ hist.n <= Len(hist.queue0))
    => /\ hist.ret = "Ok"
       /\ Len(texts) = Len(urls)
       /\ \A i \in 1..Len(texts) :
            (responses[i].ok /\ texts[i].ok)
            => UrlToString(responses[i].url) \in DOMAIN graph

\* C5: explore_queue on an empty queue returns EmptyQueue, fetches nothing
\* and leaves queue and graph unchanged; EmptyQueue is returned by no call
\* that found the queue non-empty, and RequestError by none that found it
\* empty.
C5_EmptyQueueIsDistinct ==
    /\ (hist.op = "explore_queue" /\ hist.queue0 = <<>>)
       => (hist.ret = "EmptyQueue" /\ hist.fetch = "none"
           /\ queue = <<>> /\ graph = hist.graph0)
    /\ hist.ret = "EmptyQueue" => (hist.op = "explore_queue" /\ hist.queue0 = <<>>)
    /\ (hist.op = "explore_queue" /\ hist.ret = "RequestError") => hist.queue0 # <<>>

C5_Witness ==
    hist.op = "explore_queue" /\ hist.queue0 = <<>> /\ hist.ret = "EmptyQueue"
    /\ calls = 2

\* C6: explore_queue(true) whose popped URL is a key of the graph returns
\* Ok without a fetch, leaves the graph unchanged and only removes the
\* head of the queue.
C6_SkipKnownIsNoOp ==
    (hist.op = "explore_queue" /\ hist.flag /\ hist.queue0 # <<>>
     /\ Head(hist.queue0) \in DOMAIN hist.graph0)
    => (hist.ret = "Ok" /\ hist.fetch = "none" /\ graph = hist.graph0
        /\ queue = Tail(hist.queue0))

C6_Witness ==
    /\ hist.op = "explore_queue" /\ hist.flag /\ hist.queue0 # <<>>
    /\ Head(hist.queue0) \in DOMAIN hist.graph0
    /\ Len(hist.queue0) > 1

\* C7: a successful visit by explore_queue of queue <<u>> \o rest, the
\* page of u yielding the links L, leaves the queue rest \o L and the
\* graph as before except that u maps to L; from queue <<"https://a/">>
\* and an empty graph, the page linking to "https://b" and "/x", the queue
\* becomes <<"https://b/", "https://a/x">>, the graph maps "https://a/" to
\* these links, and explored_nodes is 1.
C7_SuccessfulStep ==
    (hist.op = "explore_queue" /\ hist.ret = "Ok" /\ hist.fetch = "ok")
    => LET u == Head(hist.queue0)
           rest == Tail(hist.queue0)
           L == ExtractHrefsFrom(RequestOf(u), hist.body)
       IN /\ queue = rest \o L
          /\ DOMAIN graph = DOMAIN hist.graph0 \cup {u}
          /\ graph[u] = L
          /\ \A k \in DOMAIN hist.graph0 : k # u => graph[k] = hist.graph0[k]
          /\ (hist.queue0 = <<sASlash>> /\ hist.graph0 = EmptyGraph /\ hist.body = BodyLinks)
             => (queue = <<sBSlash, sAx>> /\ DOMAIN graph = {sASlash}
                 /\ graph[sASlash] = <<sBSlash, sAx>> /\ ExploredNodes = 1)

C7_Witness ==
    /\ hist.op = "explore_queue" /\ hist.ret = "Ok" /\ hist.fetch = "ok"
    /\ hist.queue0 = <<sASlash>> /\ hist.graph0 = EmptyGraph /\ hist.body = BodyLinks
    /\ queue = <<sBSlash, sAx>>

\* C8: every URL in the queue, and every key and every value entry of the
\* graph, is canonical (absolute, with a host, without fragment, in the
\* serialised form).
C8_StoredUrlsAreCanonical ==
    /\ \A i \in 1..Len(queue) : Canonical(queue[i])
    /\ \A k \in DOMAIN graph :
         Canonical(k) /\ \A i \in 1..Len(graph[k]) : Canonical(graph[k][i])

\* C9: after explore_queue_multi has returned, every URL it dequeued whose
\* fetch succeeded is a key of the graph.
C9_DequeuedUrlIsKey ==
    (Ended("explore_queue_multi") /\ hist.ret = "Ok")
    => \A i \in 1..Len(urls) :
         (responses[i].ok /\ texts[i].ok) => urls[i] \in DOMAIN graph

C11_ExploredNodesMonotone ==
    [][/\ DOMAIN graph \subseteq DOMAIN graph'
       /\ Cardinality(DOMAIN graph') >= Cardinality(DOMAIN graph)]_vars

C11_Witness ==
    /\ ExploredNodes >= 1
    /\ hist.graph0 # EmptyGraph
    /\ hist.ret \in {"RequestError", "UrlParseError", "EmptyQueue"}

\* C12: a successful visit, without skipping, of a URL u that is already
\* a key replaces the links of u by the links L2 of this visit (it does
\* not append them to the old ones), adds no key, and appends L2 to the
\* queue; from queue <<"https://a/", "https://a/">> and graph
\* {"https://a/": <<"https://a/", "https://a/">>} (the state a first visit
\* of "https://a/" left), a second visit yielding "https://b/" and
\* "https://a/x" leaves queue <<"https://a/", "https://b/", "https://a/x">>
\* and graph {"https://a/": <<"https://b/", "https://a/x">>}.
C12_RevisitOverwrites ==
    (hist.op \in {"explore_url", "explore_queue"} /\ ~hist.flag
     /\ hist.fetch = "ok" /\ hist.url \in DOMAIN hist.graph0)
    => LET L2 == ExtractHrefsFrom(RequestOf(hist.url), hist.body)
       IN /\ graph[hist.url] = L2
          /\ DOMAIN graph = DOMAIN hist.graph0
          /\ ExploredNodes = Cardinality(DOMAIN hist.graph0)
          /\ \A k \in DOMAIN graph : k # hist.url => graph[k] = hist.graph0[k]
          /\ queue = VisitQueue0 \o L2
          /\ (hist.op = "explore_queue" /\ hist.queue0 = <<sASlash, sASlash>>
              /\ DOMAIN hist.graph0 = {sASlash}
              /\ hist.graph0[sASlash] = <<sASlash, sASlash>> /\ hist.body = BodyLinks)
             => (queue = <<sASlash, sBSlash, sAx>>
                 /\ graph[sASlash] = <<sBSlash, sAx>> /\ ExploredNodes = 1)

C12_Witness ==
    /\ hist.op = "explore_queue" /\ ~hist.flag /\ hist.fetch = "ok"
    /\ hist.queue0 = <<sASlash, sASlash>>
    /\ DOMAIN hist.graph0 = {sASlash}
    /\ hist.graph0[sASlash] = <<sASlash, sASlash>>
    /\ hist.body = BodyLinks
    /\ graph[sASlash] = <<sBSlash, sAx>>

\* The last call was a successful visit by explore_url.
Visited == hist.op = "explore_url" /\ hist.fetch = "ok"

\* The page's own URL, fragment removed, as a string.
PageString(url) == UrlToString(SetFragmentNone(UrlParse(url)))

ExpectedAtAd(a) ==
    IF a = Anchor(sA) \/ a = Anchor(sASlash) \/ a = Anchor(sAFrag) THEN <<sASlash>>
    ELSE IF a = Anchor(sB) THEN <<sBSlash>>
    ELSE IF a = Anchor(sRel) THEN <<sAx>>
    ELSE IF a = Anchor(sUp) THEN <<sAy>>
    ELSE IF a = Anchor(sFrag) THEN <<sAd>>
    ELSE <<>>

\* C15: the output of the extractor is, in document order, the links of
\* exactly the anchors that have an href that normalises: the j-th link
\* comes from the j-th such anchor, nothing stands for the other anchors,
\* and repeated targets are repeated; on the page "https://a/d/" absolute
\* hrefs are taken as they are, "/x" gives "https://a/x", "../y" gives
\* "https://a/y", and fragments are removed.
C15_DocumentOrder ==
    Visited
    => LET out == graph[hist.url]
           body == hist.body
           base == UrlParse(RequestOf(hist.url))
           kept == {i \in 1..Len(body) : HrefLinks(base, body[i]) # <<>>}
           Rank(i) == Cardinality({j \in kept : j <= i})
       IN /\ Len(out) = Cardinality(kept)
          /\ \A i \in kept : out[Rank(i)] = HrefLinks(base, body[i])[1]
          /\ hist.url = sAd
             => \A i \in 1..Len(body) : HrefLinks(base, body[i]) = ExpectedAtAd(body[i])

C15_Witness ==
    /\ Visited /\ hist.url = sAd
    /\ hist.body = <<Anchor(sUp), NoHref, Anchor(sRel)>>
    /\ graph[sAd] = <<sAy, sAx>>

C14_UrlParseError ==
    /\ ((hist.op = "explore_url" \/ (hist.op = "explore_queue" /\ hist.queue0 # <<>>))
        /\ ~UrlParse(hist.url).ok)
       => (hist.ret = "UrlParseError" /\ hist.fetch = "none"
           /\ queue = VisitQueue0 /\ graph = hist.graph0 /\ pc = "idle")
    /\ hist.op = "explore_queue_multi"
       => /\ \A i \in 1..Len(urls) :
               ~UrlParse(urls[i]).ok
               => /\ responses[i] \in {Pending, SendErr}
                  /\ i <= Len(texts) => texts[i] = NoText
          /\ (pc = "panicked" /\ texts # <<>>) => UrlParse(urls[Len(texts)]).ok
          /\ hist.ret \in {"Pending", "Ok", "Panic"}

C14_Witness ==
    /\ hist.op = "explore_url" /\ hist.url = sRel
    /\ hist.ret = "UrlParseError"
    /\ hist.graph0 # EmptyGraph

\* The queue and graph left by handling the responses i, i+1, ... of the
\* batch in the order of urls, from queue q and graph g.
RECURSIVE ApplySlots(_, _, _)
ApplySlots(q, g, i) ==
    IF i > Len(urls) THEN [queue |-> q, graph |-> g]
    ELSE IF responses[i].ok /\ texts[i].ok
    THEN LET url == UrlToString(responses[i].url)
             links == ExtractHrefsFrom(url, texts[i].body)
         IN ApplySlots(q \o links,
                       [x \in DOMAIN g \cup {url} |-> IF x = url THEN links ELSE g[x]],
                       i + 1)
    ELSE ApplySlots(q, g, i + 1)

\* C17: when explore_queue_multi returns, queue and graph are what
\* handling the responses one by one in the order of the dequeued URLs
\* gives, whatever the order in which the send futures resolved
\* (hist.done): the links are appended in dequeue order and of two
\* responses with the same key the later in dequeue order wins.
C17_AppliedInDequeueOrder ==
    (Ended("explore_queue_multi") /\ hist.ret = "Ok")
    => LET final == ApplySlots(SubSeq(hist.queue0, hist.n + 1, Len(hist.queue0)),
                               hist.graph0, 1)
       IN /\ Len(texts) = Len(urls)
          /\ \A i \in 1..Len(urls) : (texts[i] = NoText) <=> ~responses[i].ok
          /\ queue = final.queue
          /\ graph = final.graph

C17_Witness ==
    /\ Ended("explore_queue_multi") /\ hist.ret = "Ok"
    /\ hist.done = <<2, 1>>
    /\ responses[1].ok /\ responses[2].ok /\ texts[1].ok /\ texts[2].ok
    /\ responses[1].url = responses[2].url
    /\ ExtractHrefsFrom(UrlToString(responses[1].url), texts[1].body)
         # ExtractHrefsFrom(UrlToString(responses[2].url), texts[2].body)
    /\ graph[UrlToString(responses[2].url)]
         = ExtractHrefsFrom(UrlToString(responses[2].url), texts[2].body)

\* C18: in a run of explore_queue(true) calls only, a call fetches only
\* for a popped URL that is not a key of the graph, and every key keeps
\* its value: the graph after a call is the graph before it, plus at most
\* the popped URL as a new key.
C18_KnownNeverFetched ==
    hist.op = "explore_queue"
    => /\ hist.fetch # "none" => ~(hist.url \in DOMAIN hist.graph0)
       /\ \A k \in DOMAIN hist.graph0 : k \in DOMAIN graph /\ graph[k] = hist.graph0[k]
       /\ DOMAIN graph \subseteq DOMAIN hist.graph0 \cup {hist.url}

C18_Witness ==
    /\ hist.op = "explore_queue" /\ hist.flag
    /\ hist.url \in DOMAIN hist.graph0
    /\ hist.fetch = "none" /\ hist.ret = "Ok"
    /\ hist.graph0[hist.url] # <<>>
    /\ graph = hist.graph0

\* C19: the driver that repeats explore_queue(true) and goes on after
\* the errors it is returned is eventually returned EmptyQueue.
C19_EventuallyEmptyQueue == <>(hist.ret = "EmptyQueue")

====
